---- MODULE Spec2Model ----
(***************************************************************************)
(* Conversation store, chat orchestration and interaction analytics of the *)
(* Sleep Science Explainer Bot (backend/models/chat.py,                    *)
(* backend/models/analytics.py, backend/api/routes/chat.py,                *)
(* backend/api/routes/analytics.py).                                       *)
(*                                                                         *)
(* Scheduling.  Every handler is an `async def` served by one asyncio      *)
(* event loop.  Tasks switch only where a coroutine really suspends.       *)
(* chat_with_bot awaits generate_response, which awaits                    *)
(* _generate_ai_response, whose body is synchronous (the boto3             *)
(* invoke_model call blocks the thread), and log_interaction has no        *)
(* suspension point either.  A chat request therefore runs to completion:  *)
(* while the language-model call is in flight (inflight.pc = "generating") *)
(* no other handler of the process runs.  The model keeps the two halves   *)
(* of the handler as two steps so that the state during the call is        *)
(* visible, and disables every other handler in between.                   *)
(*                                                                         *)
(* Time.  datetime.utcnow() is read several times inside one call; the     *)
(* clock may advance between two reads.  `now` is the last value read.     *)
(***************************************************************************)
EXTENDS Integers, Sequences, FiniteSets, TLC

VARIABLES conversations, services, db_interactions, inflight, response, now,
          request_counts

vars == <<conversations, services, db_interactions, inflight, response, now,
          request_counts>>

(* ------------------------------ bounds -------------------------------- *)
MaxTime == 2
ChatHorizon == 1
MaxStep == 1
MaxMsgs == 4
MaxLog == 3
MaxLogged == 1
TicksPerDay == 1
MaxHistory == 12
MaxResults == 20
\* settings.rate_limit_requests and settings.rate_limit_window (in clock
\* ticks), scaled down, and the last clock value of the rate limiter runs
RateLimitRequests == 2
RateLimitWindow == 2
RateMaxTime == 5

(* ------------------------------ inputs -------------------------------- *)
None == "<None>"
ConvIds == {"c1", "c2"}
UserIds == {"u1", "u2"}
ChatUsers == {"u1"}
Msgs == {"Hi", "Hello"}
Replies == {"Sleep"}
Topics == {"A", "B", "C"}
DaysSet == {1, 2}
LimitSet == {1, 2, 3}

(* ------------------------------- clock -------------------------------- *)
\* the first utcnow() of a call: any time not before the last read, up to
\* the horizon h of the run
Later(t, h) == t..h

\* n successive utcnow() reads of one call, the first one at or after t
RECURSIVE ClockReads(_, _, _)
ClockReads(t, n, h) ==
    IF n = 0 THEN {<<>>}
    ELSE UNION {{<<u>> \o r : r \in ClockReads(u, n - 1, h)} :
                    u \in {v \in t..(t + MaxStep) : v <= h}}

FirstReads(n, h) ==
    UNION {{<<u>> \o r : r \in ClockReads(u, n - 1, h)} : u \in Later(now, h)}

(* ------------------------- conversation store ------------------------- *)
\* mutant: every conversation id counts as absent
FalsyAlways(x) == TRUE

Falsy(x) == x \in {None, ""}

Put(f, k, v) == [x \in (DOMAIN f) \cup {k} |-> IF x = k THEN v ELSE f[x]]

Remove(f, k) == [x \in (DOMAIN f) \ {k} |-> f[x]]

NewConversation(tc, tu) == [messages |-> <<>>, created_at |-> tc, updated_at |-> tu]

\* mutant: the append does not refresh updated_at
AddMessageKeepsUpdatedAt(convs, conversation_id, role, content, r) ==
    LET base == IF conversation_id \notin DOMAIN convs
                THEN Put(convs, conversation_id, NewConversation(r[1], r[2]))
                ELSE convs
        message == [role |-> role, content |-> content, timestamp |-> r[3]]
    IN  [base EXCEPT ![conversation_id] = [@ EXCEPT !.messages = Append(@, message)]]

\* mutant: the conversation is created without the membership test
AddMessageAlwaysCreates(convs, conversation_id, role, content, r) ==
    LET base == Put(convs, conversation_id, NewConversation(r[1], r[2]))
        message == [role |-> role, content |-> content, timestamp |-> r[3]]
    IN  [base EXCEPT ![conversation_id] =
            [@ EXCEPT !.messages = Append(@, message), !.updated_at = r[4]]]

\* reads r[1], r[2] are used only by the create-if-missing branch
AddMessageToConversation(convs, conversation_id, role, content, r) ==
    LET base == IF conversation_id \notin DOMAIN convs
                THEN Put(convs, conversation_id, NewConversation(r[1], r[2]))
                ELSE convs
        message == [role |-> role, content |-> content, timestamp |-> r[3]]
    IN  [base EXCEPT ![conversation_id] =
            [@ EXCEPT !.messages = Append(@, message), !.updated_at = r[4]]]

\* messages held by the whole store (what MaxMsgs bounds)
RECURSIVE StoredMessages(_)
StoredMessages(convs) ==
    IF DOMAIN convs = {} THEN 0
    ELSE LET c == CHOOSE x \in DOMAIN convs : TRUE
         IN  Len(convs[c].messages) + StoredMessages(Remove(convs, c))

\* mutant: a minted id may be one the store already holds
Uuid4AnyId(convs) == ConvIds

\* a fresh uuid: not an id of the store
Uuid4(convs) == ConvIds \ DOMAIN convs

Idle == [pc |-> "idle", conversation_id |-> None, request |-> None, ai_response |-> None]

Requests == [message : Msgs, conversation_id : ConvIds \cup {None, ""}, user_id : ChatUsers \cup {None}]

(* -------------------------- analytics service ------------------------- *)
\* the two module-level AnalyticsService objects: the one chat_with_bot logs
\* to (routes/chat.py) and the one the analytics routes query (routes/analytics.py)
ChatModule == "routes.chat"
AnalyticsModule == "routes.analytics"
Instances == {ChatModule, AnalyticsModule}

NewAnalyticsService == [interactions |-> <<>>, topic_counts |-> <<>>, user_sessions |-> <<>>]

\* mutant: the topic count is written from a stale read
LogInteractionStaleCount(svc, user_id, conversation_id, message, reply, topic, r) ==
    LET interaction == [user_id |-> user_id,
                        conversation_id |-> conversation_id,
                        message |-> message,
                        response |-> reply,
                        topic |-> topic,
                        timestamp |-> r[1],
                        message_length |-> Len(message),
                        response_length |-> Len(reply)]
        sessions == IF user_id \notin DOMAIN svc.user_sessions
                    THEN Put(svc.user_sessions, user_id,
                             [first_seen |-> r[2], last_seen |-> r[3],
                              total_interactions |-> 0, topics |-> {}])
                    ELSE svc.user_sessions
        session == sessions[user_id]
    IN  [interactions |-> Append(svc.interactions, interaction),
         topic_counts |-> Put(svc.topic_counts, topic, 1),
         user_sessions |-> [sessions EXCEPT ![user_id] =
            [first_seen |-> session.first_seen,
             last_seen |-> r[4],
             total_interactions |-> session.total_interactions + 1,
             topics |-> session.topics \cup {topic}]]]

\* reads: r[1] the interaction's timestamp, r[2] and r[3] first_seen and
\* last_seen of a new session, r[4] the last_seen refresh
LogInteraction(svc, user_id, conversation_id, message, reply, topic, r) ==
    LET interaction == [user_id |-> user_id,
                        conversation_id |-> conversation_id,
                        message |-> message,
                        response |-> reply,
                        topic |-> topic,
                        timestamp |-> r[1],
                        message_length |-> Len(message),
                        response_length |-> Len(reply)]
        counts == Put(svc.topic_counts, topic,
                      (IF topic \in DOMAIN svc.topic_counts
                       THEN svc.topic_counts[topic] ELSE 0) + 1)
        sessions == IF user_id \notin DOMAIN svc.user_sessions
                    THEN Put(svc.user_sessions, user_id,
                             [first_seen |-> r[2], last_seen |-> r[3],
                              total_interactions |-> 0, topics |-> {}])
                    ELSE svc.user_sessions
        session == sessions[user_id]
    IN  [interactions |-> Append(svc.interactions, interaction),
         topic_counts |-> counts,
         user_sessions |-> [sessions EXCEPT ![user_id] =
            [first_seen |-> session.first_seen,
             last_seen |-> r[4],
             total_interactions |-> session.total_interactions + 1,
             topics |-> session.topics \cup {topic}]]]

\* the utcnow() reads of one log_interaction call that follow a read at t:
\* four for a user without a session, two otherwise (r[2], r[3] unused)
LogReads(svc, user_id, t, h) ==
    IF user_id \in DOMAIN svc.user_sessions
    THEN {<<r[1], r[1], r[1], r[2]>> : r \in ClockReads(t, 2, h)}
    ELSE ClockReads(t, 4, h)

\* mutant: the date filter keeps every interaction
RecentInteractionsIgnoresCutoff(interactions, cutoff) == interactions

\* the interactions at or after cutoff, in log order
RecentInteractions(interactions, cutoff) ==
    SelectSeq(interactions, LAMBDA i : i.timestamp >= cutoff)

\* the topic_counts dict a scan builds: <<topic, count>> items in insertion
\* order, which is the order of first occurrence
RECURSIVE CountTopics(_)
CountTopics(interactions) ==
    IF interactions = <<>> THEN <<>>
    ELSE LET n == Len(interactions)
             before == CountTopics(SubSeq(interactions, 1, n - 1))
             topic == interactions[n].topic
         IN  IF \E k \in 1..Len(before) : before[k][1] = topic
             THEN [k \in 1..Len(before) |->
                      IF before[k][1] = topic
                      THEN <<topic, before[k][2] + 1>> ELSE before[k]]
             ELSE Append(before, <<topic, 1>>)

\* mutant: a sort that puts an item before the items of equal count
RECURSIVE SortedByCountTiesReversed(_)
SortedByCountTiesReversed(items) ==
    IF items = <<>> THEN <<>>
    ELSE LET n == Len(items)
             sorted == SortedByCountTiesReversed(SubSeq(items, 1, n - 1))
             item == items[n]
             pos == Cardinality({k \in 1..Len(sorted) : sorted[k][2] > item[2]})
         IN  SubSeq(sorted, 1, pos) \o <<item>> \o SubSeq(sorted, pos + 1, Len(sorted))

\* sorted(items, key=count, reverse=True): a stable sort, so items of equal
\* count keep their order
RECURSIVE SortedByCount(_)
SortedByCount(items) ==
    IF items = <<>> THEN <<>>
    ELSE LET n == Len(items)
             sorted == SortedByCount(SubSeq(items, 1, n - 1))
             item == items[n]
             pos == Cardinality({k \in 1..Len(sorted) : sorted[k][2] >= item[2]})
         IN  SubSeq(sorted, 1, pos) \o <<item>> \o SubSeq(sorted, pos + 1, Len(sorted))

\* items[:limit] for limit >= 0
Truncate(items, limit) ==
    SubSeq(items, 1, IF limit < Len(items) THEN limit ELSE Len(items))

TopicList(items) == [k \in 1..Len(items) |-> [topic |-> items[k][1], count |-> items[k][2]]]

RECURSIVE SumOf(_, _)
SumOf(interactions, field) ==
    IF interactions = <<>> THEN 0
    ELSE interactions[1][field] + SumOf(Tail(interactions), field)

\* round(total / n, 2) in hundredths, halves to even (with the lengths and
\* counts of this model the quotient is never a half that a float misplaces)
Round2(total, n) ==
    LET q == (100 * total) \div n
        rem == (100 * total) % n
    IN  IF 2 * rem < n THEN q
        ELSE IF 2 * rem > n THEN q + 1
        ELSE IF q % 2 = 0 THEN q ELSE q + 1

\* t is the utcnow() the call reads
get_popular_topics(svc, t, days, limit) ==
    TopicList(Truncate(SortedByCount(CountTopics(
        RecentInteractions(svc.interactions, t - days * TicksPerDay))), limit))

\* mutant: a user is unknown when the log holds no interaction of theirs
GetUserAnalyticsByLog(svc, user_id) ==
    IF SelectSeq(svc.interactions, LAMBDA i : i.user_id = user_id) = <<>>
    THEN [error |-> "User not found"]
    ELSE LET session == svc.user_sessions[user_id]
         IN  [user_id |-> user_id,
              first_seen |-> session.first_seen,
              last_seen |-> session.last_seen,
              total_interactions |-> session.total_interactions]

get_user_analytics(svc, user_id) ==
    IF user_id \notin DOMAIN svc.user_sessions
    THEN [error |-> "User not found"]
    ELSE LET session == svc.user_sessions[user_id]
             user_interactions == SelectSeq(svc.interactions, LAMBDA i : i.user_id = user_id)
             total_messages == Len(user_interactions)
             counts == CountTopics(user_interactions)
         IN  [user_id |-> user_id,
              first_seen |-> session.first_seen,
              last_seen |-> session.last_seen,
              total_interactions |-> session.total_interactions,
              total_messages |-> total_messages,
              avg_message_length |->
                  IF total_messages > 0
                  THEN Round2(SumOf(user_interactions, "message_length"), total_messages)
                  ELSE 0,
              topics |-> session.topics,
              topic_preferences |-> TopicList(counts),
              session_duration |-> session.last_seen - session.first_seen]

TopTopics == 5

get_overall_statistics(svc, t, days) ==
    LET recent == RecentInteractions(svc.interactions, t - days * TicksPerDay)
    IN  IF recent = <<>>
        THEN [total_interactions |-> 0, unique_users |-> 0, avg_message_length |-> 0,
              top_topics |-> <<>>, period_days |-> days]
        ELSE [total_interactions |-> Len(recent),
              unique_users |-> Cardinality({recent[k].user_id : k \in 1..Len(recent)}),
              avg_message_length |-> Round2(SumOf(recent, "message_length"), Len(recent)),
              top_topics |-> TopicList(Truncate(SortedByCount(CountTopics(recent)), TopTopics)),
              period_days |-> days,
              period_start |-> t - days * TicksPerDay]

\* mutant: the summary is taken over the whole log
ConversationAnalyticsOverWholeLog(svc, conversation_id) ==
    LET found == svc.interactions
        n == Len(found)
    IN  IF found = <<>>
        THEN [error |-> "Conversation not found"]
        ELSE [conversation_id |-> conversation_id,
              user_id |-> found[1].user_id,
              total_messages |-> n,
              topics |-> {found[k].topic : k \in 1..n},
              avg_message_length |-> Round2(SumOf(found, "message_length"), n),
              avg_response_length |-> Round2(SumOf(found, "response_length"), n),
              start_time |-> found[1].timestamp,
              end_time |-> found[n].timestamp,
              duration_seconds |-> found[n].timestamp - found[1].timestamp]

get_conversation_analytics(svc, conversation_id) ==
    LET found == SelectSeq(svc.interactions, LAMBDA i : i.conversation_id = conversation_id)
        n == Len(found)
    IN  IF found = <<>>
        THEN [error |-> "Conversation not found"]
        ELSE [conversation_id |-> conversation_id,
              user_id |-> found[1].user_id,
              total_messages |-> n,
              topics |-> {found[k].topic : k \in 1..n},
              avg_message_length |-> Round2(SumOf(found, "message_length"), n),
              avg_response_length |-> Round2(SumOf(found, "response_length"), n),
              start_time |-> found[1].timestamp,
              end_time |-> found[n].timestamp,
              duration_seconds |-> found[n].timestamp - found[1].timestamp]

\* mutant: the interaction stamped exactly at the cutoff is removed too
CleanupDropsAtCutoff(svc, t, days) ==
    LET cutoff_date == t - days * TicksPerDay
        expired_users == {u \in DOMAIN svc.user_sessions :
                             svc.user_sessions[u].last_seen < cutoff_date}
    IN  [interactions |-> SelectSeq(svc.interactions, LAMBDA i : i.timestamp > cutoff_date),
         topic_counts |-> svc.topic_counts,
         user_sessions |-> [u \in (DOMAIN svc.user_sessions) \ expired_users |->
                               svc.user_sessions[u]]]

\* mutant: a session expires by its first_seen
CleanupByFirstSeen(svc, t, days) ==
    LET cutoff_date == t - days * TicksPerDay
        expired_users == {u \in DOMAIN svc.user_sessions :
                             svc.user_sessions[u].first_seen < cutoff_date}
    IN  [interactions |-> RecentInteractions(svc.interactions, cutoff_date),
         topic_counts |-> svc.topic_counts,
         user_sessions |-> [u \in (DOMAIN svc.user_sessions) \ expired_users |->
                               svc.user_sessions[u]]]

cleanup_old_data(svc, t, days) ==
    LET cutoff_date == t - days * TicksPerDay
        expired_users == {u \in DOMAIN svc.user_sessions :
                             svc.user_sessions[u].last_seen < cutoff_date}
    IN  [interactions |-> RecentInteractions(svc.interactions, cutoff_date),
         topic_counts |-> svc.topic_counts,
         user_sessions |-> [u \in (DOMAIN svc.user_sessions) \ expired_users |->
                               svc.user_sessions[u]]]

(* ------------------------------- chat --------------------------------- *)
DefaultTopic == "sleep_science"

Init ==
    /\ conversations = <<>>
    /\ services = [i \in Instances |-> NewAnalyticsService]
    /\ db_interactions = <<>>
    /\ inflight = Idle
    /\ response = [status |-> 0]
    /\ now = 0
    /\ request_counts = <<>>

\* mutant: the interaction is logged whatever the request carries
AlwaysLogInteraction(req) == TRUE

\* chat_with_bot logs only when the request carries a user id
ShouldLogInteraction(req) == ~Falsy(req.user_id)

\* mutant: a failed generation is answered like a reply without text
ChatResponseSwallowsError(conversation_id, ai_response) ==
    [status |-> 200, conversation_id |-> conversation_id, response |-> ai_response.content]

\* what chat_with_bot answers: the ChatResponse, or HTTP 500 when
\* generate_response raised
ChatResponse(conversation_id, ai_response) ==
    IF ai_response.ok
    THEN [status |-> 200, conversation_id |-> conversation_id,
          response |-> ai_response.content]
    ELSE [status |-> 500, detail |-> "Failed to generate response. Please try again."]

\* generate_response up to the language-model call: resolve or mint the
\* conversation and append the user message
ChatBegin(req) ==
    /\ inflight.pc = "idle"
    /\ ShouldLogInteraction(req) => Len(services[ChatModule].interactions) < MaxLogged
    /\ StoredMessages(conversations) + 2 <= MaxMsgs
    /\ \/ /\ Falsy(req.conversation_id)
          /\ \E cid \in Uuid4(conversations), r \in FirstReads(4, ChatHorizon) :
                /\ conversations' = AddMessageToConversation(
                        Put(conversations, cid, NewConversation(r[1], r[2])),
                        cid, "user", req.message, r)
                /\ inflight' = [pc |-> "generating", conversation_id |-> cid, request |-> req,
                                ai_response |-> None]
                /\ now' = r[4]
       \/ /\ ~Falsy(req.conversation_id)
          /\ req.conversation_id \notin DOMAIN conversations
          /\ \E r \in FirstReads(4, ChatHorizon) :
                /\ conversations' = AddMessageToConversation(
                        conversations, req.conversation_id, "user", req.message, r)
                /\ now' = r[4]
          /\ inflight' = [pc |-> "generating", conversation_id |-> req.conversation_id,
                          request |-> req, ai_response |-> None]
       \/ /\ ~Falsy(req.conversation_id)
          /\ req.conversation_id \in DOMAIN conversations
          /\ \E r \in FirstReads(2, ChatHorizon) :
                /\ conversations' = AddMessageToConversation(
                        conversations, req.conversation_id, "user", req.message,
                        <<r[1], r[1], r[1], r[2]>>)
                /\ now' = r[2]
          /\ inflight' = [pc |-> "generating", conversation_id |-> req.conversation_id,
                          request |-> req, ai_response |-> None]
    /\ UNCHANGED <<services, db_interactions, response>>
    /\ UNCHANGED request_counts

\* _generate_ai_response: the Bedrock call returns text, or raises
AiOutcomes == {[ok |-> TRUE, content |-> reply] : reply \in Replies}
                 \cup {[ok |-> FALSE, content |-> ""]}

GenerateAiResponse(outcome) ==
    /\ inflight.pc = "generating"
    /\ inflight' = [inflight EXCEPT !.pc = "generated", !.ai_response = outcome]
    /\ UNCHANGED <<conversations, services, db_interactions, response, now>>
    /\ UNCHANGED request_counts

\* the rest of generate_response and of chat_with_bot.  On text: append the
\* assistant message, log the interaction, answer 200.  On an exception:
\* generate_response re-raises and the route answers 500.
ChatComplete ==
    /\ inflight.pc = "generated"
    /\ LET cid == inflight.conversation_id
           req == inflight.request
           ai_response == inflight.ai_response
           known == cid \in DOMAIN conversations
       IN  IF ai_response.ok
           THEN \E r \in ClockReads(now, 4, ChatHorizon) :
                  /\ known => r[3] = r[2] /\ r[4] = r[2]
                  /\ conversations' = AddMessageToConversation(
                         conversations, cid, "assistant", ai_response.content,
                         IF known THEN <<r[1], r[1], r[1], r[2]>> ELSE r)
                  /\ IF ShouldLogInteraction(req)
                     THEN \E q \in LogReads(services[ChatModule], req.user_id,
                                            r[4], ChatHorizon) :
                            /\ services' = [services EXCEPT ![ChatModule] =
                                   LogInteraction(@, req.user_id, cid, req.message,
                                                  ai_response.content, DefaultTopic, q)]
                            /\ now' = q[4]
                     ELSE /\ UNCHANGED services
                          /\ now' = r[4]
           ELSE UNCHANGED <<conversations, services, now>>
    /\ response' = ChatResponse(inflight.conversation_id, inflight.ai_response)
    /\ inflight' = Idle
    /\ UNCHANGED db_interactions
    /\ UNCHANGED request_counts

\* ChatBot.get_conversation_history
get_conversation_history(convs, conversation_id) ==
    IF conversation_id \notin DOMAIN convs
    THEN [error |-> "Conversation not found"]
    ELSE [error |-> None, value |-> convs[conversation_id]]

\* mutant: the delete empties the conversation and keeps its key
DeleteClearsMessages(convs, conversation_id) ==
    IF conversation_id \in DOMAIN convs
    THEN [error |-> None,
          conversations |-> [convs EXCEPT ![conversation_id].messages = <<>>]]
    ELSE [error |-> "Conversation not found", conversations |-> convs]

\* ChatBot.delete_conversation
delete_conversation(convs, conversation_id) ==
    IF conversation_id \in DOMAIN convs
    THEN [error |-> None, conversations |-> Remove(convs, conversation_id)]
    ELSE [error |-> "Conversation not found", conversations |-> convs]

\* mutant: a lookup of an unknown id leaves an empty conversation behind
GetConversationHistoryRouteCreates(conversation_id) ==
    /\ inflight.pc = "idle"
    /\ conversations' = IF conversation_id \in DOMAIN conversations THEN conversations
                        ELSE Put(conversations, conversation_id, NewConversation(now, now))
    /\ response' = IF conversation_id \in DOMAIN conversations
                   THEN [status |-> 200, history |-> conversations[conversation_id]]
                   ELSE [status |-> 404, detail |-> "Conversation not found"]
    /\ UNCHANGED <<services, db_interactions, inflight, now>>
    /\ UNCHANGED request_counts

GetConversationHistoryRoute(conversation_id) ==
    /\ inflight.pc = "idle"
    /\ LET history == get_conversation_history(conversations, conversation_id)
       IN  response' = IF history.error = None
                       THEN [status |-> 200, history |-> history.value]
                       ELSE [status |-> 404, detail |-> "Conversation not found"]
    /\ UNCHANGED <<conversations, services, db_interactions, inflight, now>>
    /\ UNCHANGED request_counts

\* mutant: the delete also drops the conversation's interactions
DeleteConversationRouteDropsInteractions(conversation_id) ==
    /\ inflight.pc = "idle"
    /\ LET result == delete_conversation(conversations, conversation_id)
       IN  /\ conversations' = result.conversations
           /\ response' = IF result.error = None
                          THEN [status |-> 200, message |-> "Conversation deleted successfully"]
                          ELSE [status |-> 500, detail |-> "Failed to delete conversation"]
    /\ services' = [i \in Instances |->
          [services[i] EXCEPT !.interactions =
              SelectSeq(@, LAMBDA x : x.conversation_id # conversation_id)]]
    /\ UNCHANGED <<db_interactions, inflight, now>>
    /\ UNCHANGED request_counts

\* mutant: a delete is served while an exchange waits for its reply
DeleteConversationRouteAnyTime(conversation_id) ==
    /\ LET result == delete_conversation(conversations, conversation_id)
       IN  /\ conversations' = result.conversations
           /\ response' = IF result.error = None
                          THEN [status |-> 200, message |-> "Conversation deleted successfully"]
                          ELSE [status |-> 500, detail |-> "Failed to delete conversation"]
    /\ UNCHANGED <<services, db_interactions, inflight, now>>
    /\ UNCHANGED request_counts

DeleteConversationRoute(conversation_id) ==
    /\ inflight.pc = "idle"
    /\ LET result == delete_conversation(conversations, conversation_id)
       IN  /\ conversations' = result.conversations
           /\ response' = IF result.error = None
                          THEN [status |-> 200, message |-> "Conversation deleted successfully"]
                          ELSE [status |-> 500, detail |-> "Failed to delete conversation"]
    /\ UNCHANGED <<services, db_interactions, inflight, now>>
    /\ UNCHANGED request_counts

(* -------------------------- analytics routes -------------------------- *)
\* GET /analytics/overview: reads the interactions table, not the service
get_analytics_overview(db, t, days) ==
    LET start_date == t - days * TicksPerDay
        rows == SelectSeq(db, LAMBDA i : i.timestamp >= start_date /\ i.timestamp <= t)
        total_interactions == Len(rows)
    IN  [status |-> 200,
         total_interactions |-> total_interactions,
         unique_users |-> Cardinality({rows[k].conversation_id : k \in 1..Len(rows)}),
         avg_message_length |->
             IF total_interactions > 0 /\ SumOf(rows, "message_length") > 0
             THEN Round2(SumOf(rows, "message_length"), total_interactions) ELSE 0,
         top_topics |-> IF total_interactions > 0
                        THEN <<[topic |-> DefaultTopic, count |-> total_interactions]>>
                        ELSE <<>>,
         period_days |-> days,
         period_start |-> start_date,
         period_end |-> t]

\* GET /analytics/topics
get_topic_analytics(svc, t, days, limit) ==
    LET popular_topics == get_popular_topics(svc, t, days, limit)
        total_interactions == SumOf(popular_topics, "count")
    IN  [status |-> 200,
         topics |-> [k \in 1..Len(popular_topics) |->
            [topic |-> popular_topics[k].topic,
             count |-> popular_topics[k].count,
             percentage |-> IF total_interactions > 0
                            THEN Round2(popular_topics[k].count * 100, total_interactions)
                            ELSE 0,
             avg_message_length |-> 0]]]

\* GET /analytics/users/{user_id}
get_user_analytics_route(svc, user_id) ==
    LET user_stats == get_user_analytics(svc, user_id)
    IN  IF "error" \in DOMAIN user_stats
        THEN [status |-> 404, detail |-> "User not found"]
        ELSE [status |-> 200, body |-> user_stats]

\* GET /analytics/conversations/{conversation_id}
get_conversation_analytics_route(svc, conversation_id) ==
    LET conversation_stats == get_conversation_analytics(svc, conversation_id)
    IN  IF "error" \in DOMAIN conversation_stats
        THEN [status |-> 404, detail |-> "Conversation not found"]
        ELSE [status |-> 200, body |-> conversation_stats]

AnalyticsOverviewRoute(days) ==
    /\ inflight.pc = "idle"
    /\ \E t \in Later(now, ChatHorizon) :
          /\ response' = get_analytics_overview(db_interactions, t, days)
          /\ now' = t
    /\ UNCHANGED <<conversations, services, db_interactions, inflight>>
    /\ UNCHANGED request_counts

TopicAnalyticsRoute(days, limit) ==
    /\ inflight.pc = "idle"
    /\ \E t \in Later(now, ChatHorizon) :
          /\ response' = get_topic_analytics(services[AnalyticsModule], t, days, limit)
          /\ now' = t
    /\ UNCHANGED <<conversations, services, db_interactions, inflight>>
    /\ UNCHANGED request_counts

UserAnalyticsRoute(user_id) ==
    /\ inflight.pc = "idle"
    /\ response' = get_user_analytics_route(services[AnalyticsModule], user_id)
    /\ UNCHANGED <<conversations, services, db_interactions, inflight, now>>
    /\ UNCHANGED request_counts

ConversationAnalyticsRoute(conversation_id) ==
    /\ inflight.pc = "idle"
    /\ response' = get_conversation_analytics_route(services[AnalyticsModule], conversation_id)
    /\ UNCHANGED <<conversations, services, db_interactions, inflight, now>>
    /\ UNCHANGED request_counts

\* POST /analytics/cleanup
CleanupAnalyticsRoute(days) ==
    /\ inflight.pc = "idle"
    /\ \E t \in Later(now, ChatHorizon) :
          /\ services' = [services EXCEPT ![AnalyticsModule] = cleanup_old_data(@, t, days)]
          /\ now' = t
    /\ response' = [status |-> 200, message |-> "cleaned up", days |-> days]
    /\ UNCHANGED <<conversations, db_interactions, inflight>>
    /\ UNCHANGED request_counts

Next ==
    \/ \E req \in Requests : ChatBegin(req)
    \/ \E outcome \in AiOutcomes : GenerateAiResponse(outcome)
    \/ ChatComplete
    \/ \E c \in ConvIds : GetConversationHistoryRoute(c)
    \/ \E c \in ConvIds : DeleteConversationRoute(c)
    \/ \E days \in DaysSet : AnalyticsOverviewRoute(days)
    \/ \E days \in DaysSet, limit \in LimitSet : TopicAnalyticsRoute(days, limit)
    \/ \E u \in UserIds : UserAnalyticsRoute(u)
    \/ \E c \in ConvIds : ConversationAnalyticsRoute(c)
    \/ \E days \in DaysSet : CleanupAnalyticsRoute(days)

Spec == Init /\ [][Next]_vars

\* the event loop serves every request it has accepted, and clients keep
\* sending requests
FairSpec == Spec /\ WF_vars(Next)

(* ----------------- the ChatBot class, called directly ---------------- *)
\* the "messages" of the request body _generate_ai_response sends to Bedrock
FormattedMessages(convs, conversation_id) ==
    LET messages == IF conversation_id \in DOMAIN convs
                    THEN convs[conversation_id].messages ELSE <<>>
        kept == SelectSeq(messages, LAMBDA msg : msg.role # "system")
    IN  [k \in 1..Len(kept) |->
            [role |-> kept[k].role,
             content |-> <<[type |-> "text", text |-> kept[k].content]>>]]

BotConversations == {"c1"}

\* generate_response up to the Bedrock call, on a conversation that may grow
\* to MaxHistory messages
GenerateResponseCall(message, conversation_id) ==
    /\ inflight.pc = "idle"
    /\ (IF conversation_id \in DOMAIN conversations
        THEN Len(conversations[conversation_id].messages) ELSE 0) + 2 <= MaxHistory
    /\ IF conversation_id \in DOMAIN conversations
       THEN \E r \in FirstReads(2, ChatHorizon) :
               /\ conversations' = AddMessageToConversation(
                       conversations, conversation_id, "user", message,
                       <<r[1], r[1], r[1], r[2]>>)
               /\ now' = r[2]
       ELSE \E r \in FirstReads(4, ChatHorizon) :
               /\ conversations' = AddMessageToConversation(
                       conversations, conversation_id, "user", message, r)
               /\ now' = r[4]
    /\ inflight' = [pc |-> "generating", conversation_id |-> conversation_id,
                    request |-> [message |-> message, conversation_id |-> conversation_id,
                                 user_id |-> None],
                    ai_response |-> None]
    /\ UNCHANGED <<services, db_interactions, response>>
    /\ UNCHANGED request_counts

BotNext ==
    \/ \E message \in Msgs, c \in BotConversations : GenerateResponseCall(message, c)
    \/ \E outcome \in AiOutcomes : GenerateAiResponse(outcome)
    \/ ChatComplete

BotSpec == Init /\ [][BotNext]_vars

(* ------------- the AnalyticsService class, called directly ------------ *)
\* one AnalyticsService object driven through record and cleanup; its
\* queries are the operators above, evaluated in every state
RecordInteraction(user_id, conversation_id, message, reply, topic) ==
    /\ Len(services[AnalyticsModule].interactions) < MaxLog
    /\ \E t \in Later(now, MaxTime) :
         \E q \in LogReads(services[AnalyticsModule], user_id, t, MaxTime) :
            /\ q[1] = t
            /\ services' = [services EXCEPT ![AnalyticsModule] =
                  LogInteraction(@, user_id, conversation_id, message, reply, topic, q)]
            /\ now' = q[4]
    /\ UNCHANGED <<conversations, db_interactions, inflight, response>>
    /\ UNCHANGED request_counts

CleanupOldData(days) ==
    /\ \E t \in Later(now, MaxTime) :
          /\ services' = [services EXCEPT ![AnalyticsModule] = cleanup_old_data(@, t, days)]
          /\ now' = t
    /\ UNCHANGED <<conversations, db_interactions, inflight, response>>
    /\ UNCHANGED request_counts

\* the exchanges recorded: each conversation carries one message text
RecordedExchanges == {<<"c1", "Hi", "Sleep">>, <<"c2", "Hello", "Sleep">>}

ServiceNext ==
    \/ \E u \in UserIds, e \in RecordedExchanges, topic \in Topics :
          RecordInteraction(u, e[1], e[2], e[3], topic)
    \/ \E days \in DaysSet : CleanupOldData(days)

ServiceSpec == Init /\ [][ServiceNext]_vars

(* --------------- the recommendations routes, called directly ---------- *)
\* SleepRecommendationsClient.recommendations: the dict of sources in
\* insertion order, each entry with its key (the "content" text of a
\* recommendation is left out)
Recommendations ==
    << [key |-> "bryan_johnson", name |-> "Bryan Johnson - Blueprint Protocol", source |-> "bryan_johnson",
      recommendations |-> <<
          [id |-> "bj_001", title |-> "Sleep Schedule Optimization", category |-> "sleep_schedule", priority |-> "high"],
          [id |-> "bj_002", title |-> "Sleep Environment", category |-> "sleep_environment", priority |-> "high"],
          [id |-> "bj_003", title |-> "Pre-Sleep Routine", category |-> "sleep_hygiene", priority |-> "medium"],
          [id |-> "bj_004", title |-> "Sleep Tracking", category |-> "sleep_monitoring", priority |-> "medium"]>>],
       [key |-> "andrew_huberman", name |-> "Andrew Huberman - Huberman Lab", source |-> "andrew_huberman",
      recommendations |-> <<
          [id |-> "ah_001", title |-> "Morning Light Exposure", category |-> "circadian_rhythm", priority |-> "high"],
          [id |-> "ah_002", title |-> "Evening Light Management", category |-> "circadian_rhythm", priority |-> "high"],
          [id |-> "ah_003", title |-> "Temperature Regulation", category |-> "sleep_physiology", priority |-> "medium"],
          [id |-> "ah_004", title |-> "Caffeine Timing", category |-> "sleep_hygiene", priority |-> "high"],
          [id |-> "ah_005", title |-> "Exercise Timing", category |-> "exercise", priority |-> "medium"]>>],
       [key |-> "eightsleep", name |-> "EightSleep - Sleep Optimization", source |-> "eightsleep",
      recommendations |-> <<
          [id |-> "es_001", title |-> "Temperature Control", category |-> "sleep_environment", priority |-> "high"],
          [id |-> "es_002", title |-> "Sleep Stages Optimization", category |-> "sleep_stages", priority |-> "high"],
          [id |-> "es_003", title |-> "Heart Rate Variability", category |-> "sleep_monitoring", priority |-> "medium"],
          [id |-> "es_004", title |-> "Sleep Consistency", category |-> "sleep_schedule", priority |-> "high"]>>],
       [key |-> "cdc", name |-> "CDC - Sleep Guidelines", source |-> "cdc",
      recommendations |-> <<
          [id |-> "cdc_001", title |-> "Sleep Duration Guidelines", category |-> "sleep_duration", priority |-> "high"],
          [id |-> "cdc_002", title |-> "Sleep Hygiene Practices", category |-> "sleep_hygiene", priority |-> "high"],
          [id |-> "cdc_003", title |-> "Electronic Device Management", category |-> "sleep_environment", priority |-> "medium"],
          [id |-> "cdc_004", title |-> "Physical Activity", category |-> "exercise", priority |-> "medium"],
          [id |-> "cdc_005", title |-> "Diet and Sleep", category |-> "diet", priority |-> "medium"]>>] >>

SourceKeys == {Recommendations[i].key : i \in 1..Len(Recommendations)}

SourceData(key) ==
    Recommendations[CHOOSE i \in 1..Len(Recommendations) : Recommendations[i].key = key]

\* {**rec, "source_name": ..., "source": ...}
Annotated(rec, source_data) ==
    [id |-> rec.id, title |-> rec.title, category |-> rec.category,
     priority |-> rec.priority,
     source_name |-> source_data.name, source |-> source_data.source]

AnnotatedAll(source_data) ==
    [k \in 1..Len(source_data.recommendations) |->
        Annotated(source_data.recommendations[k], source_data)]

\* the loop of get_recommendations_by_category over sources_to_search
RECURSIVE ByCategoryIn(_, _)
ByCategoryIn(sources_to_search, category) ==
    IF sources_to_search = <<>> THEN <<>>
    ELSE LET source_name == Head(sources_to_search)
             rest == ByCategoryIn(Tail(sources_to_search), category)
         IN  IF source_name \notin SourceKeys THEN rest
             ELSE SelectSeq(AnnotatedAll(SourceData(source_name)),
                            LAMBDA rec : rec.category = category) \o rest

AllKeys == [i \in 1..Len(Recommendations) |-> Recommendations[i].key]

\* mutant: the source filter is ignored
ByCategoryAllSources(category, source) == ByCategoryIn(AllKeys, category)

get_recommendations_by_category(category, source) ==
    ByCategoryIn(IF Falsy(source) THEN AllKeys ELSE <<source>>, category)

\* the loop of the route over all_recs.values() when no category is given
RECURSIVE AllFrom(_, _)
AllFrom(i, source) ==
    IF i > Len(Recommendations) THEN <<>>
    ELSE IF ~Falsy(source) /\ Recommendations[i].source # source
         THEN AllFrom(i + 1, source)
         ELSE AnnotatedAll(Recommendations[i]) \o AllFrom(i + 1, source)

\* GET /recommendations
get_recommendations(category, source, max_results) ==
    LET recommendations == IF ~Falsy(category)
                           THEN get_recommendations_by_category(category, source)
                           ELSE AllFrom(1, source)
    IN  [status |-> 200, body |-> Truncate(recommendations, max_results)]

\* the recommendation found, as a one-element sequence; <<>> for None
get_recommendation_by_id(rec_id) ==
    LET found == SelectSeq(AllFrom(1, None), LAMBDA rec : rec.id = rec_id)
    IN  IF found = <<>> THEN <<>> ELSE <<found[1]>>

\* GET /recommendations/{rec_id}
get_recommendation_details(rec_id) ==
    LET recommendation == get_recommendation_by_id(rec_id)
    IN  IF recommendation = <<>>
        THEN [status |-> 404, detail |-> "Recommendation not found"]
        ELSE [status |-> 200, body |-> recommendation[1]]

FlatCategories == [k \in 1..Len(AllFrom(1, None)) |-> AllFrom(1, None)[k].category]

CategoryInputs ==
    {FlatCategories[k] : k \in 1..Len(FlatCategories)} \cup {None, "", "naps"}

SourceInputs == SourceKeys \cup {None, "", "oura"}

MaxResultsSet == 1..MaxResults

RecIds == {AllFrom(1, None)[k].id : k \in 1..Len(AllFrom(1, None))} \cup {"zz_999"}

\* the client holds the answer together with the query it sent
GetRecommendationsRoute(category, source, max_results) ==
    /\ response' = [status |-> get_recommendations(category, source, max_results).status,
                    body |-> get_recommendations(category, source, max_results).body,
                    query |-> [category |-> category, source |-> source,
                               max_results |-> max_results]]
    /\ UNCHANGED <<conversations, services, db_interactions, inflight, now>>
    /\ UNCHANGED request_counts

GetRecommendationDetailsRoute(rec_id) ==
    /\ response' = [answer |-> get_recommendation_details(rec_id),
                    query |-> [rec_id |-> rec_id]]
    /\ UNCHANGED <<conversations, services, db_interactions, inflight, now>>
    /\ UNCHANGED request_counts

PapersNext ==
    \/ \E category \in CategoryInputs, source \in SourceInputs, max_results \in MaxResultsSet :
          GetRecommendationsRoute(category, source, max_results)
    \/ \E rec_id \in RecIds : GetRecommendationDetailsRoute(rec_id)

PapersSpec == Init /\ [][PapersNext]_vars

(* ------------- the RateLimitMiddleware, called directly --------------- *)
ClientIps == {"10.0.0.1", "10.0.0.2", "unknown"}

\* _cleanup_old_entries: the entries whose window has expired are deleted
cleanup_old_entries(counts, current_time) ==
    LET expired_ips == {ip \in DOMAIN counts :
                           current_time - counts[ip].window_start > RateLimitWindow}
    IN  [ip \in (DOMAIN counts) \ expired_ips |-> counts[ip]]

\* _check_rate_limit: the verdict and the counts it leaves
check_rate_limit(counts, client_ip, current_time) ==
    LET created == IF client_ip \notin DOMAIN counts
                   THEN Put(counts, client_ip, [count |-> 0, window_start |-> current_time])
                   ELSE counts
        client_data == IF current_time - created[client_ip].window_start > RateLimitWindow
                       THEN [count |-> 0, window_start |-> current_time]
                       ELSE created[client_ip]
    IN  IF client_data.count >= RateLimitRequests
        THEN [allowed |-> FALSE, request_counts |-> Put(created, client_ip, client_data)]
        ELSE [allowed |-> TRUE,
              request_counts |-> Put(created, client_ip,
                                     [client_data EXCEPT !.count = @ + 1])]

\* call_next(request): the handler's answer, with the rate limit headers
CallNext(client_ip) ==
    [status |-> 200, client_ip |-> client_ip, handled |-> TRUE,
     headers |-> [limit |-> RateLimitRequests, window |-> RateLimitWindow]]

\* the rejection: dispatch builds Response(content={"detail": ...},
\* status_code=429).  Response.render encodes str content and passes bytes
\* through; for a dict it raises AttributeError in the constructor, the
\* exception leaves dispatch and the server answers 500.
RateLimitExceeded(client_ip) ==
    [status |-> 500, client_ip |-> client_ip, handled |-> FALSE]

Dispatch(client_ip) ==
    /\ \E current_time \in Later(now, RateMaxTime) :
          LET verdict == check_rate_limit(
                             cleanup_old_entries(request_counts, current_time),
                             client_ip, current_time)
          IN  /\ request_counts' = verdict.request_counts
              /\ response' = IF verdict.allowed THEN CallNext(client_ip)
                             ELSE RateLimitExceeded(client_ip)
              /\ now' = current_time
    /\ UNCHANGED <<conversations, services, db_interactions, inflight>>

RateNext == \E client_ip \in ClientIps : Dispatch(client_ip)

RateSpec == Init /\ [][RateNext]_vars

(* ============================== claims =============================== *)
MessagesOf(convs, c) == IF c \in DOMAIN convs THEN convs[c].messages ELSE <<>>

IsPrefix(a, b) == Len(a) <= Len(b) /\ SubSeq(b, 1, Len(a)) = a

Last(q) == q[Len(q)]

\* a step in which a chat request resolves conversation c and appends its
\* user message
BeginStep(c) ==
    /\ inflight.pc = "idle"
    /\ inflight'.pc = "generating"
    /\ inflight'.conversation_id = c

\* a step in which the exchange in flight on c appends its assistant message
CompleteOkStep(c) ==
    /\ inflight.pc = "generated"
    /\ inflight.ai_response.ok
    /\ inflight.conversation_id = c
    /\ inflight'.pc = "idle"

AppendStep(c) == BeginStep(c) \/ CompleteOkStep(c)

DeleteStep(c) == DeleteConversationRoute(c) /\ c \in DOMAIN conversations

C1_State ==
    \A c \in DOMAIN conversations :
        conversations[c].updated_at >= conversations[c].created_at

C1_Step ==
    \A c \in ConvIds :
        LET before == get_conversation_history(conversations, c)
            after == get_conversation_history(conversations', c)
        IN  /\ AppendStep(c) =>
                /\ after.error = None
                /\ Len(after.value.messages) = Len(MessagesOf(conversations, c)) + 1
                /\ IsPrefix(MessagesOf(conversations, c), after.value.messages)
                /\ after.value.updated_at >= now
                /\ after.value.updated_at >= Last(after.value.messages).timestamp
            /\ (before.error = None /\ after.error = None) =>
                /\ IsPrefix(before.value.messages, after.value.messages)
                /\ after.value.updated_at >= before.value.updated_at
                /\ after.value.created_at = before.value.created_at
                /\ (~AppendStep(c) => after.value = before.value)
            /\ (before.error = None /\ after.error # None) => DeleteStep(c)

\* C1: every append to a conversation adds exactly one message at the end of
\* its history (a conversation created by its first append holds one message),
\* so N appends give N messages in call order; only a delete removes a stored
\* message and nothing reorders one; updated_at is refreshed by every append
\* (it is read in that call, not before the appended message's timestamp),
\* never decreases and is never before created_at.
C1_AppendOnly == [](C1_State) /\ [][C1_Step]_vars

C1_Witness ==
    \E c \in DOMAIN conversations :
        /\ Len(conversations[c].messages) >= 3
        /\ conversations[c].updated_at > conversations[c].created_at
        /\ inflight.pc = "idle"

C2_Step ==
    \A c \in ConvIds :
        /\ DeleteStep(c) =>
              /\ response'.status = 200
              /\ c \notin DOMAIN conversations'
              /\ \A d \in (DOMAIN conversations) \ {c} :
                    d \in DOMAIN conversations' /\ conversations'[d] = conversations[d]
              /\ get_conversation_history(conversations', c).error = "Conversation not found"
        /\ (GetConversationHistoryRoute(c) /\ c \notin DOMAIN conversations) =>
              response'.status = 404 /\ c \notin DOMAIN conversations'
        /\ (c \notin DOMAIN conversations /\ c \in DOMAIN conversations') => AppendStep(c)

\* C2: a successful delete of conversation c removes c with all its messages
\* in that one step and leaves every other conversation as it was; from then
\* on get_conversation_history(c) raises "Conversation not found" (the route
\* answers 404) until a chat call on c creates it again.
C2_DeleteThenNotFound == [][C2_Step]_vars

C2_Witness ==
    /\ response = [status |-> 200, message |-> "Conversation deleted successfully"]
    /\ conversations = <<>>
    /\ now > 0

C3_Step ==
    \A c \in ConvIds :
        /\ BeginStep(c) =>
              /\ (~Falsy(inflight'.request.conversation_id) =>
                      c = inflight'.request.conversation_id)
              /\ Len(conversations'[c].messages) = Len(MessagesOf(conversations, c)) + 1
              /\ \A k \in 1..Len(MessagesOf(conversations, c)) :
                    conversations'[c].messages[k] = conversations[c].messages[k]
              /\ Last(conversations'[c].messages).role = "user"
              /\ Last(conversations'[c].messages).content = inflight'.request.message
        /\ CompleteOkStep(c) =>
              /\ c \in DOMAIN conversations
              /\ Last(conversations[c].messages).role = "user"
              /\ Last(conversations[c].messages).content = inflight.request.message
              /\ Len(conversations'[c].messages) = Len(conversations[c].messages) + 1
              /\ \A k \in 1..Len(conversations[c].messages) :
                    conversations'[c].messages[k] = conversations[c].messages[k]
              /\ Last(conversations'[c].messages).role = "assistant"
              /\ Last(conversations'[c].messages).content = inflight.ai_response.content
        /\ (inflight.pc # "idle" /\ inflight.conversation_id # c) =>
              MessagesOf(conversations', c) = MessagesOf(conversations, c)

\* C3: chat requests on one conversation id, served in any order, lose no
\* message: the request's user message is appended after everything the
\* conversation already holds, also when the id is taken by another request's
\* create-if-missing just before; the assistant message is appended right
\* after the user message of its own exchange; and while an exchange is in
\* flight no other request touches any other conversation's history.
C3_NoLostAppend == [][C3_Step]_vars

C3_Witness ==
    \E c \in DOMAIN conversations :
        /\ Len(conversations[c].messages) = 4
        /\ conversations[c].messages[1].content # conversations[c].messages[3].content
        /\ conversations[c].messages[2].role = "assistant"
        /\ conversations[c].messages[4].role = "assistant"

C4_Step ==
    \A c \in ConvIds :
        /\ (BeginStep(c) /\ Falsy(inflight'.request.conversation_id)) =>
              /\ c \notin DOMAIN conversations
              /\ Len(conversations'[c].messages) = 1
        /\ (BeginStep(c) /\ ~Falsy(inflight'.request.conversation_id)
                         /\ c \in DOMAIN conversations) =>
              /\ c = inflight'.request.conversation_id
              /\ conversations'[c].created_at = conversations[c].created_at
              /\ IsPrefix(conversations[c].messages, conversations'[c].messages)
        /\ CompleteOkStep(c) =>
              /\ response'.status = 200
              /\ response'.conversation_id = c
              /\ (~Falsy(inflight.request.conversation_id) =>
                      response'.conversation_id = inflight.request.conversation_id)

C4_State ==
    (inflight.pc = "idle" /\ response.status = 200 /\ "conversation_id" \in DOMAIN response) =>
        LET m == MessagesOf(conversations, response.conversation_id)
        IN  /\ Len(m) >= 2
            /\ m[Len(m) - 1].role = "user"
            /\ m[Len(m)].role = "assistant"
            /\ m[Len(m)].content = response.response

\* C4: a chat call without conversation_id works on a minted id that is not
\* a key of the store before the call and answers with that id; a call that
\* names a stored id continues that conversation (same created_at, its
\* history kept as a prefix) and answers with the id it was given; a
\* successful answer leaves the named conversation ending with the user
\* message and the reply of that exchange.
C4_FollowUpSameConversation == [](C4_State) /\ [][C4_Step]_vars

C4_Witness ==
    /\ inflight.pc = "idle"
    /\ response.status = 200
    /\ "conversation_id" \in DOMAIN response
    /\ response.conversation_id \in DOMAIN conversations
    /\ LET m == conversations[response.conversation_id].messages
       IN  /\ Len(m) = 4
           /\ <<m[1].role, m[2].role, m[3].role, m[4].role>>
                 = <<"user", "assistant", "user", "assistant">>
           /\ m[1].content = "Hi" /\ m[3].content = "Hello"

GenerationFailed ==
    [status |-> 500, detail |-> "Failed to generate response. Please try again."]

C5_State ==
    (inflight.pc = "generated" /\ ~inflight.ai_response.ok) =>
        LET m == MessagesOf(conversations, inflight.conversation_id)
        IN  /\ m # <<>>
            /\ Last(m).role = "user"
            /\ Last(m).content = inflight.request.message

C5_Step ==
    (inflight.pc = "generated" /\ ~inflight.ai_response.ok) =>
        /\ response' = GenerationFailed
        /\ conversations' = conversations
        /\ services' = services
        /\ inflight' = Idle

\* C5: when the language-model call raises, the request is answered with the
\* generation-failed error (HTTP 500, never a 200), no assistant message is
\* appended and no interaction is recorded: the store and both analytics
\* services are as the failing call found them, the conversation ending with
\* the user message appended before the call.
C5_FailedGenerationAborts == [](C5_State) /\ [][C5_Step]_vars

C5_Witness ==
    /\ inflight.pc = "idle"
    /\ response = GenerationFailed
    /\ services[ChatModule].interactions = <<>>
    /\ \E c \in DOMAIN conversations :
          /\ Len(conversations[c].messages) = 3
          /\ conversations[c].messages[2].role = "assistant"
          /\ conversations[c].messages[3].role = "user"

C6_Step ==
    LET before == services[ChatModule].interactions
        after == services'[ChatModule].interactions
        logs == /\ inflight.pc = "generated"
                /\ inflight.ai_response.ok
                /\ inflight.request.user_id \in UserIds
    IN  /\ IsPrefix(before, after)
        /\ Len(after) = Len(before) + (IF logs THEN 1 ELSE 0)
        /\ logs =>
              LET i == Last(after)
              IN  /\ i.user_id = inflight.request.user_id
                  /\ i.conversation_id = inflight.conversation_id
                  /\ i.message = inflight.request.message
                  /\ i.response = inflight.ai_response.content
                  /\ i.message_length = Len(i.message)
                  /\ i.response_length = Len(i.response)
                  /\ i.timestamp >= now
        /\ \A s \in Instances :
              ~IsPrefix(services[s].interactions, services'[s].interactions) =>
                  \E days \in DaysSet : CleanupAnalyticsRoute(days)

\* C6: the log chat_with_bot writes to grows by exactly one interaction in
\* the step that completes a successful exchange whose request carries a user
\* id (the interaction holds that request's user id, conversation id, texts
\* and their lengths) and by none in any other step (no user id, failed
\* generation, any other handler); what is in the log is never changed, and
\* only the cleanup handler takes interactions out of a log.
C6_OneInteractionPerExchange == [][C6_Step]_vars

C6_Witness ==
    /\ inflight.pc = "idle"
    /\ Len(services[ChatModule].interactions) = 1
    /\ \E c \in DOMAIN conversations :
          /\ Len(conversations[c].messages) = 4
          /\ services[ChatModule].interactions[1].conversation_id = c
          /\ services[ChatModule].interactions[1].message = conversations[c].messages[3].content
          /\ conversations[c].messages[1].content # conversations[c].messages[3].content

\* an interaction of user u in conversation c was emitted by chat_with_bot
Emitted(u, c) ==
    \E k \in 1..Len(services[ChatModule].interactions) :
        /\ services[ChatModule].interactions[k].user_id = u
        /\ services[ChatModule].interactions[k].conversation_id = c

\* what the analytics routes answer, asked now, reflects an interaction of
\* user u in conversation c
Visible(u, c) ==
    /\ get_user_analytics_route(services[AnalyticsModule], u).status = 200
    /\ get_conversation_analytics_route(services[AnalyticsModule], c).status = 200
    /\ \E days \in DaysSet, limit \in LimitSet :
          get_topic_analytics(services[AnalyticsModule], now, days, limit).topics # <<>>
    /\ \E days \in DaysSet :
          get_analytics_overview(db_interactions, now, days).total_interactions > 0

\* C7: once a completed exchange of user u in conversation c has emitted its
\* interaction, the analytics routes eventually reflect it: user analytics of
\* u and conversation analytics of c answer 200 rather than 404, the topic
\* list is not empty and the overview counts at least one interaction.
C7_EventuallyVisible ==
    \A u \in ChatUsers, c \in ConvIds : Emitted(u, c) ~> Visible(u, c)

\* the log of the queried AnalyticsService object
Log == services[AnalyticsModule].interactions

\* the positions of the log that fall in the window of days ending at t
Window(t, days) == {k \in 1..Len(Log) : Log[k].timestamp >= t - days * TicksPerDay}

\* the times a query issued in this state can read from the clock
QueryTimes == now..MaxTime

OverviewZeros(days) ==
    [total_interactions |-> 0, unique_users |-> 0, avg_message_length |-> 0,
     top_topics |-> <<>>, period_days |-> days]

\* C8: an overview over a window that holds no interaction reports
\* total_interactions 0, unique_users 0, avg_message_length 0 and an empty
\* top_topics list; so does the overview route over an interactions table
\* without a row in the window.
C8_EmptyWindowOverview ==
    \A t \in QueryTimes, days \in DaysSet :
        /\ Window(t, days) = {} =>
              get_overall_statistics(services[AnalyticsModule], t, days) = OverviewZeros(days)
        /\ (\A k \in 1..Len(db_interactions) :
               db_interactions[k].timestamp < t - days * TicksPerDay) =>
              LET overview == get_analytics_overview(db_interactions, t, days)
              IN  /\ overview.status = 200
                  /\ overview.total_interactions = 0
                  /\ overview.unique_users = 0
                  /\ overview.avg_message_length = 0
                  /\ overview.top_topics = <<>>

\* interactions are in the log, all of them older than a window a query can
\* ask for
C8_Witness ==
    /\ Log # <<>>
    /\ \E t \in QueryTimes, days \in DaysSet :
          /\ Window(t, days) = {}
          /\ get_overall_statistics(services[AnalyticsModule], t, days).total_interactions = 0

\* the interactions of user u, in log order
InteractionsOf(u) == SelectSeq(Log, LAMBDA i : i.user_id = u)

\* the number of log_interaction calls the service has served
\* (topic_counts is never cleaned)
RECURSIVE TotalCount(_)
TotalCount(counts) ==
    IF DOMAIN counts = {} THEN 0
    ELSE LET topic == CHOOSE x \in DOMAIN counts : TRUE
         IN  counts[topic] + TotalCount(Remove(counts, topic))

NothingCleaned == Len(Log) = TotalCount(services[AnalyticsModule].topic_counts)

StrictlyIncreasing(interactions) ==
    \A k \in 1..(Len(interactions) - 1) :
        interactions[k].timestamp < interactions[k + 1].timestamp

\* C9: for a user with n >= 1 recorded interactions at times t1 < ... < tn
\* (none of them cleaned up), user analytics reports total_interactions = n
\* and session_duration = tn - t1, which is 0 when n = 1.
C9_SessionDurationFromTimestamps ==
    \A u \in UserIds :
        LET recorded == InteractionsOf(u)
            n == Len(recorded)
            stats == get_user_analytics(services[AnalyticsModule], u)
        IN  (n >= 1 /\ NothingCleaned /\ StrictlyIncreasing(recorded)) =>
               /\ "error" \notin DOMAIN stats
               /\ stats.total_interactions = n
               /\ stats.session_duration = recorded[n].timestamp - recorded[1].timestamp

TopicsIn(w) == {Log[k].topic : k \in w}

CountIn(w, topic) == Cardinality({k \in w : Log[k].topic = topic})

FirstIn(w, topic) == CHOOSE k \in w : Log[k].topic = topic /\ \A j \in w : Log[j].topic = topic => k <= j

\* topic a ranks before topic b: more interactions, or as many and seen first
RanksBefore(w, a, b) ==
    \/ CountIn(w, a) > CountIn(w, b)
    \/ CountIn(w, a) = CountIn(w, b) /\ FirstIn(w, a) < FirstIn(w, b)

\* ranking is the list of the first `limit` topics of window w, by rank
IsRanking(ranking, w, limit) ==
    /\ Len(ranking) = (IF limit < Cardinality(TopicsIn(w)) THEN limit ELSE Cardinality(TopicsIn(w)))
    /\ \A i \in 1..Len(ranking) :
          /\ ranking[i].topic \in TopicsIn(w)
          /\ ranking[i].count = CountIn(w, ranking[i].topic)
          /\ DOMAIN ranking[i] = {"topic", "count"}
    /\ \A i, j \in 1..Len(ranking) :
          i < j => RanksBefore(w, ranking[i].topic, ranking[j].topic)
    /\ \A topic \in TopicsIn(w) :
          (\A i \in 1..Len(ranking) : ranking[i].topic # topic) =>
             \A i \in 1..Len(ranking) : RanksBefore(w, ranking[i].topic, topic)

\* C10: get_popular_topics returns the topics of the window by descending
\* count, topics of equal count in the order of their first occurrence in the
\* log, cut to the first limit entries, each with its count in the window;
\* top_topics of get_overall_statistics is the same ranking cut to five.
C10_PopularTopicsRanking ==
    \A t \in QueryTimes, days \in DaysSet :
        /\ \A limit \in LimitSet :
              IsRanking(get_popular_topics(services[AnalyticsModule], t, days, limit),
                        Window(t, days), limit)
        /\ IsRanking(get_overall_statistics(services[AnalyticsModule], t, days).top_topics,
                     Window(t, days), TopTopics)

\* three topics of one interaction each, first seen in an order other than
\* the alphabetical one: the first two seen are returned in that order and
\* the third is cut off by the limit
C10_Witness ==
    \E t \in QueryTimes, days \in DaysSet :
        LET ranking == get_popular_topics(services[AnalyticsModule], t, days, 2)
            w == Window(t, days)
        IN  /\ Cardinality(TopicsIn(w)) = 3
            /\ Len(ranking) = 2
            /\ ranking[1].count = ranking[2].count
            /\ FirstIn(w, ranking[1].topic) < FirstIn(w, ranking[2].topic)
            /\ Log[1].topic # "A"

\* the positions of the log stamped at or after cutoff
Kept(cutoff) == {k \in 1..Len(Log) : Log[k].timestamp >= cutoff}

\* the i-th smallest element of the set of positions K
NthOf(K, i) == CHOOSE k \in K : Cardinality({j \in K : j < k}) = i - 1

Sessions == services[AnalyticsModule].user_sessions

C11_Step ==
    \A days \in DaysSet :
        CleanupOldData(days) =>
            LET cutoff == now' - days * TicksPerDay
                K == Kept(cutoff)
                after == services'[AnalyticsModule].interactions
            IN  /\ Len(after) = Cardinality(K)
                /\ \A i \in 1..Len(after) : after[i] = Log[NthOf(K, i)]
                /\ \A t \in now'..MaxTime, d \in DaysSet :
                      get_overall_statistics(services'[AnalyticsModule], t, d).total_interactions
                          = Cardinality({k \in K : Log[k].timestamp >= t - d * TicksPerDay})

\* C11: cleanup_old_data(days), reading the clock at t, leaves in the log
\* exactly the interactions stamped at or after t - days, in their former
\* order; an overview asked after it counts only interactions it retained.
C11_CleanupKeepsRecent == [][C11_Step]_vars

\* a cleanup has removed an interaction and retained another
C11_Witness ==
    /\ Len(Log) >= 1
    /\ Len(Log) < TotalCount(services[AnalyticsModule].topic_counts)
    /\ Log[1].timestamp > 0

C12_Step ==
    \A days \in DaysSet :
        CleanupOldData(days) =>
            LET cutoff == now' - days * TicksPerDay
                after == services'[AnalyticsModule].user_sessions
            IN  /\ DOMAIN after = {u \in DOMAIN Sessions : Sessions[u].last_seen >= cutoff}
                /\ \A u \in DOMAIN after :
                      after[u] = Sessions[u] /\ after[u].last_seen >= cutoff

\* C12: cleanup_old_data drops exactly the sessions whose last_seen is before
\* the cutoff: every session left has last_seen at or after it, and a session
\* with last_seen at or after it is still there, unaltered.
C12_CleanupDropsExpiredSessions == [][C12_Step]_vars

RECURSIVE SessionTotal(_)
SessionTotal(sessions) ==
    IF DOMAIN sessions = {} THEN 0
    ELSE LET u == CHOOSE x \in DOMAIN sessions : TRUE
         IN  sessions[u].total_interactions + SessionTotal(Remove(sessions, u))

\* a session survives and the sessions left count fewer interactions than
\* were recorded: another session has been dropped
C12_Witness ==
    /\ Sessions # <<>>
    /\ \E u \in UserIds : u \notin DOMAIN Sessions
    /\ SessionTotal(Sessions) < TotalCount(services[AnalyticsModule].topic_counts)

\* the step is one whole log_interaction call: one interaction at the end of
\* the log, its topic counted once, its user's session created or updated
RecordEffect ==
    LET after == services'[AnalyticsModule]
        before == services[AnalyticsModule]
    IN  /\ Len(after.interactions) = Len(Log) + 1
        /\ IsPrefix(Log, after.interactions)
        /\ LET x == Last(after.interactions)
               u == x.user_id
           IN  /\ x.timestamp >= now
               /\ DOMAIN after.topic_counts = DOMAIN before.topic_counts \cup {x.topic}
               /\ \A topic \in DOMAIN after.topic_counts :
                     after.topic_counts[topic] =
                        (IF topic \in DOMAIN before.topic_counts
                         THEN before.topic_counts[topic] ELSE 0)
                        + (IF topic = x.topic THEN 1 ELSE 0)
               /\ DOMAIN after.user_sessions = DOMAIN Sessions \cup {u}
               /\ \A v \in DOMAIN Sessions : v # u => after.user_sessions[v] = Sessions[v]
               /\ after.user_sessions[u].total_interactions =
                     (IF u \in DOMAIN Sessions THEN Sessions[u].total_interactions ELSE 0) + 1
               /\ after.user_sessions[u].topics =
                     (IF u \in DOMAIN Sessions THEN Sessions[u].topics ELSE {}) \cup {x.topic}
               /\ after.user_sessions[u].last_seen >= x.timestamp

\* the step is one whole cleanup_old_data call: nothing is added, and for
\* its cutoff no interaction at or after it is missing afterwards
CleanupEffect ==
    LET after == services'[AnalyticsModule]
    IN  /\ \E days \in DaysSet :
              \A k \in Kept(now' - days * TicksPerDay) :
                  \E i \in 1..Len(after.interactions) : after.interactions[i] = Log[k]
        /\ Len(after.interactions) <= Len(Log)
        /\ \A i \in 1..Len(after.interactions) :
              \E k \in 1..Len(Log) : Log[k] = after.interactions[i]
        /\ after.topic_counts = services[AnalyticsModule].topic_counts
        /\ DOMAIN after.user_sessions \subseteq DOMAIN Sessions

\* C13: log_interaction and cleanup_old_data calls on one service, in any
\* order, act one whole call at a time: a record adds its interaction once
\* together with its topic count and session update, and a cleanup loses no
\* interaction at or after its cutoff, whatever was recorded before it.
C13_RecordCleanupAtomic == [][RecordEffect \/ CleanupEffect]_vars

\* an interaction recorded after a cleanup that removed others is in the log
\* together with one recorded before that cleanup
C13_Witness ==
    /\ Len(Log) = 2
    /\ TotalCount(services[AnalyticsModule].topic_counts) >= 3
    /\ Log[1].timestamp < Log[2].timestamp
    /\ Log[1].user_id # Log[2].user_id

\* C14: for every user with a session, the session's running count equals
\* the number of that user's interactions in the log (total_interactions =
\* total_messages) and its topic set equals the topics of those interactions
\* (topics = keys of topic_preferences), after any records and cleanups.
C14_SessionMatchesLog ==
    \A u \in DOMAIN Sessions :
        LET stats == get_user_analytics(services[AnalyticsModule], u)
        IN  /\ stats.total_interactions = stats.total_messages
            /\ stats.topics = {stats.topic_preferences[k].topic :
                                  k \in 1..Len(stats.topic_preferences)}

\* C15: for every topic, the running topic_counts entry (0 when absent)
\* equals the number of interactions of that topic in the log, after any
\* records and cleanups.
C15_TopicCountsMatchLog ==
    \A topic \in Topics :
        (IF topic \in DOMAIN services[AnalyticsModule].topic_counts
         THEN services[AnalyticsModule].topic_counts[topic] ELSE 0)
            = Cardinality({k \in 1..Len(Log) : Log[k].topic = topic})

C16_State ==
    \A u \in UserIds :
        LET answer == get_user_analytics_route(services[AnalyticsModule], u)
        IN  /\ u \notin DOMAIN Sessions =>
                  answer = [status |-> 404, detail |-> "User not found"]
            /\ u \in DOMAIN Sessions =>
                  /\ answer.status = 200
                  /\ answer.body.user_id = u
                  /\ answer.body.first_seen = Sessions[u].first_seen
                  /\ answer.body.last_seen = Sessions[u].last_seen
                  /\ answer.body.total_interactions = Sessions[u].total_interactions
            /\ InteractionsOf(u) # <<>> => answer.status = 200

C16_Step ==
    \A u \in UserIds :
        LET after == services'[AnalyticsModule]
        IN  /\ (u \notin DOMAIN Sessions /\ u \in DOMAIN after.user_sessions) =>
                  /\ Len(after.interactions) = Len(Log) + 1
                  /\ Last(after.interactions).user_id = u
            /\ (u \in DOMAIN Sessions /\ u \notin DOMAIN after.user_sessions) =>
                  \E days \in DaysSet :
                      /\ CleanupOldData(days)
                      /\ Sessions[u].last_seen < now' - days * TicksPerDay

\* C16: the user analytics route answers 404 "User not found" exactly for the
\* users without a session, and the session summary (200) for the others; a
\* user gets a session only by a recorded interaction and loses it only by a
\* cleanup whose cutoff is after the session's last_seen, so a user with an
\* interaction in the log is never answered 404.
C16_UserNotFoundIffNoSession == [](C16_State) /\ [][C16_Step]_vars

\* one user's session was dropped by a cleanup (404), another user's session
\* outlived all of that user's interactions (200)
C16_Witness ==
    \E u, v \in UserIds :
        /\ get_user_analytics_route(services[AnalyticsModule], u).status = 200
        /\ InteractionsOf(u) = <<>>
        /\ get_user_analytics_route(services[AnalyticsModule], v).status = 404
        /\ SessionTotal(Sessions) < TotalCount(services[AnalyticsModule].topic_counts)

\* the positions of the log that reference conversation c
RefsOf(c) == {k \in 1..Len(Log) : Log[k].conversation_id = c}

\* C17: the conversation analytics route answers 404 "Conversation not found"
\* exactly when no interaction of the log references the id; otherwise
\* total_messages is the number of interactions that reference it,
\* start_time and end_time are the timestamps of the first and the last of
\* them in log order, start_time <= end_time, and duration_seconds is
\* end_time - start_time, not negative.
C17_ConversationAnalytics ==
    \A c \in ConvIds :
        LET refs == RefsOf(c)
            answer == get_conversation_analytics_route(services[AnalyticsModule], c)
        IN  IF refs = {}
            THEN answer = [status |-> 404, detail |-> "Conversation not found"]
            ELSE /\ answer.status = 200
                 /\ answer.body.conversation_id = c
                 /\ answer.body.total_messages = Cardinality(refs)
                 /\ answer.body.start_time = Log[NthOf(refs, 1)].timestamp
                 /\ answer.body.end_time = Log[NthOf(refs, Cardinality(refs))].timestamp
                 /\ answer.body.start_time <= answer.body.end_time
                 /\ answer.body.duration_seconds =
                       answer.body.end_time - answer.body.start_time
                 /\ answer.body.duration_seconds >= 0

\* one conversation with two interactions some time apart and another
\* interaction between them, the other conversation's
C17_Witness ==
    /\ Len(Log) = 3
    /\ Log[1].conversation_id = Log[3].conversation_id
    /\ Log[2].conversation_id # Log[1].conversation_id
    /\ get_conversation_analytics_route(services[AnalyticsModule],
           Log[1].conversation_id).body.duration_seconds > 0

C18_Step ==
    \A c \in ConvIds :
        DeleteConversationRoute(c) =>
            /\ services' = services
            /\ db_interactions' = db_interactions
            /\ \A i \in Instances :
                  get_conversation_analytics(services'[i], c)
                      = get_conversation_analytics(services[i], c)

\* C18: deleting a conversation changes no interaction, topic count or user
\* session of either analytics service nor the interactions table, and the
\* conversation's analytics summary is the same after the delete as before.
C18_DeleteKeepsAnalytics == [][C18_Step]_vars

\* a conversation with a logged interaction has been deleted and its
\* interaction is still in the log
C18_Witness ==
    /\ response = [status |-> 200, message |-> "Conversation deleted successfully"]
    /\ \E c \in ConvIds :
          /\ c \notin DOMAIN conversations
          /\ "error" \notin DOMAIN get_conversation_analytics(services[ChatModule], c)

\* the N of messages[-N:] in _prepare_conversation_context
ContextWindow == 10

\* C19: the messages sent to the language model for a conversation of M
\* stored messages are the last min(M, 10) of its history, in stored order.
C19_ContextWindow ==
    inflight.pc = "generating" =>
        LET history == MessagesOf(conversations, inflight.conversation_id)
            M == Len(history)
            n == IF M < ContextWindow THEN M ELSE ContextWindow
            sent == FormattedMessages(conversations, inflight.conversation_id)
        IN  /\ Len(sent) = n
            /\ \A k \in 1..n :
                  /\ sent[k].role = history[M - n + k].role
                  /\ sent[k].content[1].text = history[M - n + k].content

C20_Step ==
    /\ \A req \in Requests :
          (req.conversation_id \in ConvIds /\ req.conversation_id \notin DOMAIN conversations
              /\ ChatBegin(req)) =>
             LET c == req.conversation_id
             IN  /\ DOMAIN conversations' = DOMAIN conversations \cup {c}
                 /\ \A d \in DOMAIN conversations : conversations'[d] = conversations[d]
                 /\ Len(conversations'[c].messages) = 1
                 /\ conversations'[c].messages[1].role = "user"
                 /\ conversations'[c].messages[1].content = req.message
                 /\ inflight'.conversation_id = c
                 /\ response' = response
    /\ \A c \in ConvIds :
          (CompleteOkStep(c) /\ Len(conversations[c].messages) = 1
              /\ inflight.request.conversation_id = c) =>
             /\ Len(conversations'[c].messages) = 2
             /\ conversations'[c].messages[1] = conversations[c].messages[1]
             /\ conversations'[c].messages[2].role = "assistant"
             /\ conversations'[c].messages[2].content = inflight.ai_response.content
             /\ response' = [status |-> 200, conversation_id |-> c,
                             response |-> inflight.ai_response.content]
    /\ (inflight.pc = "generated" /\ inflight'.pc = "idle") => response'.status \in {200, 500}

\* C20: a chat call that names an id the store does not hold creates a
\* conversation under exactly that id whose history is the call's user
\* message alone, touches no other conversation, and on a reply holds the
\* exchange and answers 200 with that same id; the only error answer of a
\* chat call is the 500 of a failed generation, never a not-found.
C20_UnknownIdCreates == [][C20_Step]_vars

\* an exchange that named an unknown id has created it and is about to answer
C20_Witness ==
    /\ inflight.pc = "generated"
    /\ inflight.ai_response.ok
    /\ inflight.request.conversation_id \in ConvIds
    /\ DOMAIN conversations = {inflight.request.conversation_id}
    /\ Len(conversations[inflight.request.conversation_id].messages) = 1
    /\ conversations[inflight.request.conversation_id].created_at = now

\* C21: while the language-model call of an exchange is in flight, requests
\* on the other conversations (chat, history, delete) and the analytics
\* requests can be served: they do not wait for the call to return.
C21_OthersNotBlocked ==
    inflight.pc = "generating" =>
        /\ \A c \in ConvIds \ {inflight.conversation_id} :
              /\ ENABLED GetConversationHistoryRoute(c)
              /\ ENABLED DeleteConversationRoute(c)
        /\ \A u \in UserIds : ENABLED UserAnalyticsRoute(u)
        /\ \A c \in ConvIds : ENABLED ConversationAnalyticsRoute(c)

C22_Step ==
    /\ \A c \in ConvIds :
          /\ (GetConversationHistoryRoute(c) /\ c \notin DOMAIN conversations) =>
                response'.status = 404
          /\ (DeleteConversationRoute(c) /\ c \notin DOMAIN conversations) =>
                response'.status = 404
    /\ \A u \in UserIds :
          (UserAnalyticsRoute(u) /\ u \notin DOMAIN Sessions) => response'.status = 404

\* C22: a request that names a conversation or a user that does not exist
\* is answered 404, never 500: history of an unknown conversation, delete
\* of an unknown conversation, user analytics of an unknown user.
C22_NotFoundIs404 == [][C22_Step]_vars

\* the step serves one of the read requests
ReadStep ==
    \/ \E c \in ConvIds : GetConversationHistoryRoute(c)
    \/ \E u \in UserIds : UserAnalyticsRoute(u)
    \/ \E c \in ConvIds : ConversationAnalyticsRoute(c)
    \/ \E days \in DaysSet, limit \in LimitSet : TopicAnalyticsRoute(days, limit)
    \/ \E days \in DaysSet : AnalyticsOverviewRoute(days)

\* C23: a read request (conversation history, user analytics, conversation
\* analytics, topics, overview) leaves the conversation store, both
\* services' logs, topic counts and sessions and the interactions table as
\* they were, whether it answers 200 or 404; a history lookup of an unknown
\* id does not create the conversation.
C23_ReadsDoNotMutate ==
    [][ReadStep => /\ conversations' = conversations
                   /\ services' = services
                   /\ db_interactions' = db_interactions]_vars

\* a history lookup has just answered 404 over a store and a log that hold
\* something
C23_Witness ==
    /\ response = [status |-> 404, detail |-> "Conversation not found"]
    /\ conversations # <<>>
    /\ services[ChatModule].interactions # <<>>

\* C24: over a window that holds an interaction, get_overall_statistics
\* reports the number of interactions in the window, the number of distinct
\* user ids among them and the mean of their message lengths, and the
\* overview endpoint computes the same three values from the same
\* interactions.
C24_OverviewAgrees ==
    \A t \in QueryTimes, days \in DaysSet :
        LET w == Window(t, days)
            stats == get_overall_statistics(services[AnalyticsModule], t, days)
            overview == get_analytics_overview(Log, t, days)
        IN  w # {} =>
               /\ stats.total_interactions = Cardinality(w)
               /\ stats.unique_users = Cardinality({Log[k].user_id : k \in w})
               /\ stats.avg_message_length * Cardinality(w)
                     = 100 * SumOf(RecentInteractions(Log, t - days * TicksPerDay),
                                   "message_length")
               /\ overview.total_interactions = stats.total_interactions
               /\ overview.unique_users = stats.unique_users
               /\ overview.avg_message_length = stats.avg_message_length

\* C26: a chat request without conversation_id whose generation fails leaves
\* no conversation in the store under the id minted for it, which no caller
\* supplied and no response returned.
C26_NoOrphanConversation ==
    [][(/\ inflight.pc = "generated"
        /\ ~inflight.ai_response.ok
        /\ inflight.request.conversation_id \notin ConvIds
        /\ inflight'.pc = "idle")
           => inflight.conversation_id \notin DOMAIN conversations']_vars

\* C27: no stored conversation starts with an assistant message, every
\* assistant message comes right after a user message, and while an
\* exchange waits for its reply its conversation is in the store and ends
\* with the user message of that exchange: no delete lands between the two
\* appends of an exchange.
C27_ExchangeOrder ==
    /\ \A c \in DOMAIN conversations :
          LET m == conversations[c].messages
          IN  \A k \in 1..Len(m) :
                 m[k].role = "assistant" => k > 1 /\ m[k - 1].role = "user"
    /\ inflight.pc # "idle" =>
          /\ inflight.conversation_id \in DOMAIN conversations
          /\ Last(conversations[inflight.conversation_id].messages).role = "user"
          /\ Last(conversations[inflight.conversation_id].messages).content
                = inflight.request.message

\* a reply follows the second of two user messages (the first exchange
\* failed) while the other conversation has been deleted
C27_Witness ==
    /\ \E c \in DOMAIN conversations :
          LET m == conversations[c].messages
          IN  /\ Len(m) = 3
              /\ m[2].role = "user"
              /\ m[3].role = "assistant"
    /\ response = [status |-> 200, message |-> "Conversation deleted successfully"]

\* C28: for every stored conversation the number of logged interactions
\* that reference its id is at most the number of assistant messages it
\* holds.
C28_NoOvercount ==
    \A c \in DOMAIN conversations :
        Cardinality({k \in 1..Len(services[ChatModule].interactions) :
                        services[ChatModule].interactions[k].conversation_id = c})
            <= Cardinality({k \in 1..Len(conversations[c].messages) :
                               conversations[c].messages[k].role = "assistant"})

\* C29: a user has a session exactly when the log holds an interaction of
\* that user, after any records and cleanups.
C29_SessionIffInteraction ==
    \A u \in UserIds : u \in DOMAIN Sessions <=> InteractionsOf(u) # <<>>

\* every recommendation of the corpus with its source annotation, in corpus
\* order
FlatCorpus == AllFrom(1, None)

\* the positions of FlatCorpus a listing with these filters is about
Matching(category, source) ==
    {k \in 1..Len(FlatCorpus) :
        /\ Falsy(category) \/ FlatCorpus[k].category = category
        /\ Falsy(source) \/ FlatCorpus[k].source = source}

\* C25: the recommendations listing with a category returns only
\* recommendations of that category (with a source too, only of that
\* source), each with its source's name and key, in corpus order, cut to
\* max_results; without a filter the list is not empty and every item has a
\* title and a category.
C25_RecommendationsByCategory ==
    ("query" \in DOMAIN response /\ "category" \in DOMAIN response.query) =>
        LET category == response.query.category
            source == response.query.source
            max_results == response.query.max_results
            body == response.body
            P == Matching(category, source)
        IN  /\ response.status = 200
            /\ Len(body) = (IF max_results < Cardinality(P) THEN max_results
                            ELSE Cardinality(P))
            /\ \A i \in 1..Len(body) :
                  /\ body[i] = FlatCorpus[NthOf(P, i)]
                  /\ ~Falsy(category) => body[i].category = category
                  /\ ~Falsy(source) => body[i].source = source
                  /\ \E j \in 1..Len(Recommendations) :
                        /\ Recommendations[j].source = body[i].source
                        /\ Recommendations[j].name = body[i].source_name
                  /\ {"title", "category"} \subseteq DOMAIN body[i]
            /\ (Falsy(category) /\ Falsy(source)) => body # <<>>

\* a category listing over two sources that max_results has cut to two
C25_Witness ==
    /\ "query" \in DOMAIN response
    /\ "category" \in DOMAIN response.query
    /\ response.query.category = "sleep_hygiene"
    /\ response.query.source = None
    /\ response.query.max_results = 2
    /\ Len(response.body) = 2
    /\ response.body[1].category = "sleep_hygiene"
    /\ response.body[2].category = "sleep_hygiene"
    /\ response.body[1].source = "bryan_johnson"
    /\ response.body[2].source = "andrew_huberman"

\* the client's window is open at the time the step's request arrives
WindowOpen(ip) ==
    /\ ip \in DOMAIN request_counts
    /\ now' - request_counts[ip].window_start <= RateLimitWindow

\* what a request of client ip does to the counts
RateLimitStep(ip) ==
    /\ (WindowOpen(ip) /\ request_counts[ip].count >= RateLimitRequests) =>
          /\ ~response'.handled
          /\ request_counts'[ip] = request_counts[ip]
    /\ (WindowOpen(ip) /\ request_counts[ip].count < RateLimitRequests) =>
          /\ response'.handled
          /\ request_counts'[ip] = [request_counts[ip] EXCEPT !.count = @ + 1]
    /\ ~WindowOpen(ip) =>
          /\ response'.handled
          /\ request_counts'[ip] = [count |-> 1, window_start |-> now']
    /\ \A other \in ClientIps \ {ip} :
          IF other \in DOMAIN request_counts'
          THEN other \in DOMAIN request_counts
                  /\ request_counts'[other] = request_counts[other]
          ELSE other \in DOMAIN request_counts =>
                  now' - request_counts[other].window_start > RateLimitWindow

\* C30: no client's count exceeds rate_limit_requests; a request that finds
\* the count at the limit in an open window is answered 429 without reaching
\* the handler and without counting; a request changes no other client's
\* count (an expired entry of another client may be dropped); and a request
\* arriving more than rate_limit_window after window_start is admitted with
\* the count restarted at 1.
C30_RateLimit ==
    /\ [](\A ip \in DOMAIN request_counts : request_counts[ip].count <= RateLimitRequests)
    /\ [][\A ip \in ClientIps :
             Dispatch(ip) =>
                /\ RateLimitStep(ip)
                /\ ~response'.handled => response'.status = 429]_vars

\* the counting part of the rate limiter alone, which the code keeps
RateLimitCounts ==
    /\ [](\A ip \in DOMAIN request_counts : request_counts[ip].count <= RateLimitRequests)
    /\ [][\A ip \in ClientIps : Dispatch(ip) => RateLimitStep(ip)]_vars

====
